---- MODULE Spec2Model ----
(***************************************************************************)
(* Local Playlist Manager (src/local-playlist-manager/index.ts).           *)
(*                                                                         *)
(* The backend registers five ipc handlers over one storage directory of   *)
(* JSON files: get-local-playlists, save-playlist, delete-playlist,        *)
(* import-playlist-file and export-playlist-file.  A JavaScript string is  *)
(* a sequence of one-character strings (its UTF-16 code units), so that    *)
(* replace, toLowerCase, split, trim and includes are computed on the      *)
(* characters as the code computes them.                                   *)
(***************************************************************************)
EXTENDS Integers, Sequences, FiniteSets, TLC

VARIABLES
  callers,      \* the playlists the callers of this run pass to save-playlist
  cap,          \* how many ipc requests the callers keep in flight at once
  offered,      \* the paths the user of this run picks in the open dialog
  formats,      \* the formats the callers of this run pass to export-playlist-file
  files,        \* playlistsDir: file name -> file content
  dirReadable,  \* whether fs.readdirSync(playlistsDir) succeeds
  disk,         \* files outside playlistsDir: path -> content (dialog targets)
  inflight,     \* the ipc requests sent by ipc.invoke and not yet handled
  now,          \* the clock read by new Date()
  last,         \* the handler run that completed last, with its result
  document,     \* the page: the host's elements and those the renderer injects
  tasks,        \* the renderer's async functions suspended at an await of ipc.invoke
  renderer      \* the renderer's timers and counters

vars == <<callers, cap, offered, formats, files, dirReadable, disk, inflight, now, last,
          document, tasks, renderer>>

-----------------------------------------------------------------------------
(* Bounds *)

MaxInflight == 2      \* ipc requests in flight at once
MaxClock == 2         \* last clock value
MaxLen == 3           \* longest generated playlist name
MaxLines == 3         \* most lines in a generated import file
MaxTasks == 4         \* async functions the renderer's page starts in a run

-----------------------------------------------------------------------------
(* Strings *)

Lowers == <<"a","b","c","d","e","f","g","h","i","j","k","l","m",
            "n","o","p","q","r","s","t","u","v","w","x","y","z">>
Uppers == <<"A","B","C","D","E","F","G","H","I","J","K","L","M",
            "N","O","P","Q","R","S","T","U","V","W","X","Y","Z">>
Digits == {"0","1","2","3","4","5","6","7","8","9"}
Range(s) == {s[i] : i \in DOMAIN s}

\* the value of a missing property or array element
Undefined == <<"undefined">>

\* the characters String.prototype.trim removes (those the model uses)
WhiteSpace == {" ", "\t", "\r", "\n"}

\* characters matched by [a-z0-9] under the i flag: the negated class of
\* /[^a-z0-9]/gi matches every other code unit
IsAlnum(c) == c \in Range(Lowers) \cup Range(Uppers) \cup Digits

toLowerCaseChar(c) ==
  IF c \in Range(Uppers) THEN Lowers[CHOOSE i \in 1..26 : Uppers[i] = c] ELSE c

toLowerCase(s) == [i \in 1..Len(s) |-> toLowerCaseChar(s[i])]

\* the replacement without the i flag: upper-case letters are replaced too
replaceNonLower(s) ==
  [i \in 1..Len(s) |-> IF s[i] \in Range(Lowers) \cup Digits THEN s[i] ELSE "_"]

\* name.replace(/[^a-z0-9]/gi, '_')
replaceNonAlnum(s) == [i \in 1..Len(s) |-> IF IsAlnum(s[i]) THEN s[i] ELSE "_"]

DotJson == <<".", "j", "s", "o", "n">>

\* `${name.replace(/[^a-z0-9]/gi, '_').toLowerCase()}.json`
fileName(name) == toLowerCase(replaceNonAlnum(name)) \o DotJson

\* file.endsWith('.json')
endsWith(s, suffix) ==
  /\ Len(s) >= Len(suffix)
  /\ SubSeq(s, Len(s) - Len(suffix) + 1, Len(s)) = suffix

startsWith(s, prefix) ==
  /\ Len(s) >= Len(prefix)
  /\ SubSeq(s, 1, Len(prefix)) = prefix

\* first position (1-based) at which pat occurs in s, 0 when it does not
indexOf(s, pat) ==
  LET hits == {i \in 1..(Len(s) - Len(pat) + 1) : SubSeq(s, i, i + Len(pat) - 1) = pat}
  IN IF hits = {} THEN 0 ELSE CHOOSE i \in hits : \A j \in hits : i <= j

includes(s, pat) == indexOf(s, pat) > 0

RECURSIVE trimStart(_)
trimStart(s) ==
  IF s # <<>> /\ Head(s) \in WhiteSpace THEN trimStart(Tail(s)) ELSE s

RECURSIVE trimEnd(_)
trimEnd(s) ==
  IF s # <<>> /\ s[Len(s)] \in WhiteSpace THEN trimEnd(SubSeq(s, 1, Len(s) - 1)) ELSE s

trim(s) == trimEnd(trimStart(s))

\* s.split(sep) for a non-empty separator
RECURSIVE split(_, _)
split(s, sep) ==
  LET i == indexOf(s, sep)
  IN IF i = 0 THEN <<s>>
     ELSE <<SubSeq(s, 1, i - 1)>> \o split(SubSeq(s, i + Len(sep), Len(s)), sep)

\* parts.join(sep)
RECURSIVE join(_, _)
join(parts, sep) ==
  IF parts = <<>> THEN <<>>
  ELSE IF Len(parts) = 1 THEN parts[1]
  ELSE parts[1] \o sep \o join(Tail(parts), sep)

\* obj.key, undefined when the property is missing
Get(obj, key) == IF key \in DOMAIN obj THEN obj[key] ELSE Undefined

\* a string is falsy when it is undefined or empty
Falsy(v) == v = Undefined \/ v = <<>>

-----------------------------------------------------------------------------
(* File contents and JSON *)

\* JSON.stringify omits the properties whose value is undefined (songs is
\* the one property that holds an array, the others hold strings)
DropUndefined(obj) ==
  [k \in {f \in DOMAIN obj : f = "songs" \/ obj[f] # Undefined} |-> obj[k]]

\* JSON.stringify(playlist, null, 2): the text of the record
JSONstringify(playlist) ==
  [kind |-> "json",
   value |-> DropUndefined(
     [k \in DOMAIN playlist |->
        IF k = "songs"
        THEN [i \in 1..Len(playlist.songs) |-> DropUndefined(playlist.songs[i])]
        ELSE playlist[k]])]

\* plain text, which the model never lets spell a JSON value
Text(chars) == [kind |-> "text", chars |-> chars]

\* what fs.writeFileSync leaves behind when it fails after opening the file
Truncated == Text(<<"{">>)

\* JSON.parse(content): ok with the value, or a thrown SyntaxError
JSONparse(content) ==
  IF content.kind = "json" THEN [ok |-> TRUE, value |-> content.value]
  ELSE [ok |-> FALSE, value |-> Undefined]

\* outcomes of fs.writeFileSync: written; refused before the file is opened;
\* failed after the file was opened (and truncated)
WriteOutcomes == {"ok", "denied", "partial"}

writeFileSync(dir, path, content, outcome) ==
  CASE outcome = "ok" -> (path :> content) @@ dir
    [] outcome = "denied" -> dir
    [] outcome = "partial" -> (path :> Truncated) @@ dir

\* error.message of a failed fs call, of a TypeError and of a SyntaxError
IOError == "EIO"
TypeErrorMsg == "TypeError"
SyntaxErrorMsg == "SyntaxError"

Result(success, message) == [success |-> success, message |-> message]

\* an error thrown in a handler; a handler that lets it escape rejects the
\* promise of ipc.invoke with it
Throw(message) == [rejected |-> TRUE, message |-> message]

\* try { ... } catch (error) { return { success: false, message: error.message } }
Catch(outcome) ==
  IF "rejected" \in DOMAIN outcome THEN Result(FALSE, outcome.message) ELSE outcome

\* null passed where a playlist is expected
Null == [null |-> TRUE]

\* new Date().toISOString() at clock value t
DigitStr == <<"0","1","2","3","4","5","6","7","8","9">>
toISOString(t) == <<"T", DigitStr[t + 1]>>

-----------------------------------------------------------------------------
(* Requests *)

Idle == [op |-> "idle"]

Song(videoId, title, artist) == [videoId |-> videoId, title |-> title, artist |-> artist]

\* songs the callers hold: one resolved, one unresolved whose duration
\* property is present with the value undefined (as the CSV import builds it)
SongA == Song(<<"v">>, <<"t">>, <<"r">>)
SongB == Song(<<>>, <<"u">>, <<"q">>) @@ [duration |-> Undefined]
SongLists == {<<>>, <<SongA, SongB>>}

\* created values a caller passes: absent (empty), or an earlier timestamp
CallerCreated == {<<>>, toISOString(0)}

Playlist(name, songs, created, modified) ==
  [name |-> name, songs |-> songs, created |-> created, modified |-> modified]

\* the names the callers of this run pass (undefined: not a string)
names == {Get(p, "name") : p \in callers}

\* context.ipc.invoke(channel, ...args).  A request in flight carries
\* waited: whether a handler has completed since it was sent
invoke(req) ==
  /\ Cardinality(inflight) < cap
  /\ \A r \in inflight : r.req # req
  /\ inflight' = inflight \cup {[req |-> req, waited |-> FALSE]}
  /\ UNCHANGED <<callers, cap, offered, formats, document, renderer, tasks,
                 files, dirReadable, disk, now, last>>

NoPrev == [req |-> Idle, result |-> Idle, overlapped |-> FALSE]

\* the handler of the request r returns result, after a dialog returned
\* picked (Idle when the handler shows none); the promise of the renderer
\* function that awaits it (r.req.from) resolves with the result.  prev: the
\* save-playlist or delete-playlist run just before this one, remembered by a
\* listing and by a request that was in flight while it ran
Completed(r, picked, result) ==
  /\ inflight' = {[q EXCEPT !.waited = TRUE] : q \in inflight \ {r}}
  /\ tasks' = {IF "from" \in DOMAIN r.req /\ t.id = r.req.from
                THEN [t EXCEPT !.pc = "ready", !.reply = result] ELSE t : t \in tasks}
  /\ last' = [op |-> r.req.op, req |-> r.req, picked |-> picked, result |-> result,
              prev |-> IF last.op \in {"save", "delete"} /\ (r.req.op = "list" \/ r.waited)
                       THEN [req |-> last.req, result |-> last.result,
                             overlapped |-> r.waited]
                       ELSE NoPrev]

Handling(op) == {r \in inflight : r.req.op = op}

-----------------------------------------------------------------------------
(* get-local-playlists *)

\* the orders in which fs.readdirSync may list a directory
Orderings(S) ==
  {o \in [1..Cardinality(S) -> S] : \A i, j \in 1..Cardinality(S) : o[i] = o[j] => i = j}

\* a listing that leaves out the files that do not parse
GetLocalPlaylistsSkipBad(listing) ==
  LET jsonFiles == SelectSeq(listing, LAMBDA file :
                     endsWith(file, DotJson) /\ JSONparse(files[file]).ok)
  IN IF ~dirReadable THEN <<>>
     ELSE [i \in 1..Len(jsonFiles) |-> JSONparse(files[jsonFiles[i]]).value]

\* the handler's value when readdirSync lists the directory as listing
GetLocalPlaylists(listing) ==
  LET jsonFiles == SelectSeq(listing, LAMBDA file : endsWith(file, DotJson))
      parsed == [i \in 1..Len(jsonFiles) |-> JSONparse(files[jsonFiles[i]])]
  IN IF ~dirReadable THEN <<>>
     ELSE IF \E i \in 1..Len(jsonFiles) : ~parsed[i].ok THEN <<>>
     ELSE [i \in 1..Len(jsonFiles) |-> parsed[i].value]

InvokeList == invoke([op |-> "list"])

HandleList ==
  /\ \E r \in Handling("list"), listing \in Orderings(DOMAIN files) :
       Completed(r, Idle, GetLocalPlaylists(listing))
  /\ UNCHANGED <<callers, cap, offered, formats, document, renderer, files, dirReadable, disk, now>>

-----------------------------------------------------------------------------
(* save-playlist *)

\* a stamp that sets created on every save
StampFresh(playlist) ==
  ("modified" :> toISOString(now)) @@ ("created" :> toISOString(now)) @@ playlist

\* lines 67-70: modified is refreshed, created is kept unless falsy
Stamp(playlist) ==
  LET modified == toISOString(now)
  IN ("modified" :> modified)
     @@ ("created" :> IF Falsy(Get(playlist, "created")) THEN modified
                      ELSE playlist.created)
     @@ playlist

\* a save that appends the songs to those of the record already stored
SavePlaylistFilesMerge(playlist, outcome) ==
  LET file == fileName(playlist.name)
      old == IF file \in DOMAIN files /\ files[file].kind = "json"
             THEN files[file].value.songs ELSE <<>>
  IN writeFileSync(files, file,
       JSONstringify([Stamp(playlist) EXCEPT !.songs = old \o playlist.songs]), outcome)

\* line 64: playlist.name.replace throws when playlist is null or has no name
SaveThrows(playlist) == Get(playlist, "name") = Undefined

SavePlaylistFiles(playlist, outcome) ==
  IF SaveThrows(playlist) THEN files
  ELSE writeFileSync(files, fileName(playlist.name), JSONstringify(Stamp(playlist)), outcome)

\* lines 64-73: the statements inside try
SavePlaylistBody(playlist, outcome) ==
  IF SaveThrows(playlist) THEN Throw(TypeErrorMsg)
  ELSE IF outcome # "ok" THEN Throw(IOError)
  ELSE Result(TRUE, "Playlist saved successfully")

\* a handler without the try: the error escapes
SavePlaylistResultUncaught(playlist, outcome) == SavePlaylistBody(playlist, outcome)

SavePlaylistResult(playlist, outcome) == Catch(SavePlaylistBody(playlist, outcome))

InvokeSave == \E p \in callers : invoke([op |-> "save", playlist |-> p])

HandleSave ==
  /\ \E r \in Handling("save"), outcome \in WriteOutcomes :
       /\ files' = SavePlaylistFiles(r.req.playlist, outcome)
       /\ Completed(r, Idle, SavePlaylistResult(r.req.playlist, outcome))
  /\ UNCHANGED <<callers, cap, offered, formats, document, renderer, dirReadable, disk, now>>

\* songs found in the player queue (createFromQueue returns when none is)
QueueSongLists == SongLists \ {<<>>}

\* createFromQueue: prompt for a name, collect the queue, invoke save-playlist
createFromQueue ==
  \E name \in names \ {<<>>, Undefined}, songs \in QueueSongLists :
    invoke([op |-> "save",
            playlist |-> Playlist(name, songs, toISOString(now), toISOString(now))])

-----------------------------------------------------------------------------
(* delete-playlist *)

\* outcomes of fs.unlinkSync
UnlinkOutcomes == {"ok", "denied"}

\* a delete that removes every file whose name begins with the derived name
DeletePlaylistFilesByPrefix(playlistName, outcome) ==
  LET file == fileName(playlistName)
      stem == SubSeq(file, 1, Len(file) - Len(DotJson))
  IN IF playlistName # Undefined /\ file \in DOMAIN files /\ outcome = "ok"
     THEN [f \in {g \in DOMAIN files : ~startsWith(g, stem)} |-> files[f]]
     ELSE files

DeletePlaylistFiles(playlistName, outcome) ==
  LET file == fileName(playlistName)
  IN IF playlistName # Undefined /\ file \in DOMAIN files /\ outcome = "ok"
     THEN [f \in DOMAIN files \ {file} |-> files[f]]
     ELSE files

\* a delete that does not look whether the file exists
DeletePlaylistResultUnchecked(playlistName, outcome) ==
  IF outcome = "ok" THEN Result(TRUE, "Playlist deleted successfully")
  ELSE Result(FALSE, IOError)

\* lines 82-90: the statements inside try (playlistName.replace throws when
\* playlistName is not a string)
DeletePlaylistBody(playlistName, outcome) ==
  IF playlistName = Undefined THEN Throw(TypeErrorMsg)
  ELSE IF fileName(playlistName) \in DOMAIN files
  THEN IF outcome = "ok" THEN Result(TRUE, "Playlist deleted successfully")
       ELSE Throw(IOError)
  ELSE Result(FALSE, "Playlist not found")

DeletePlaylistResult(playlistName, outcome) == Catch(DeletePlaylistBody(playlistName, outcome))

InvokeDelete == \E n \in names : invoke([op |-> "delete", name |-> n])

HandleDelete ==
  /\ \E r \in Handling("delete"), outcome \in UnlinkOutcomes :
       /\ files' = DeletePlaylistFiles(r.req.name, outcome)
       /\ Completed(r, Idle, DeletePlaylistResult(r.req.name, outcome))
  /\ UNCHANGED <<callers, cap, offered, formats, document, renderer, dirReadable, disk, now>>

-----------------------------------------------------------------------------
(* import-playlist-file *)

\* a file path outside playlistsDir: its base name and its extension
Path(base, ext) == [base |-> base, ext |-> ext]

\* path.extname(filePath).toLowerCase()
extname(path) == toLowerCase(path.ext)

\* path.basename(filePath, ext): the extension is removed only when the file
\* name ends with ext exactly
basename(path, ext) == IF path.ext = ext THEN path.base ELSE path.base \o path.ext

ExtJson == <<".", "j", "s", "o", "n">>
ExtCsv == <<".", "c", "s", "v">>
ExtTxt == <<".", "t", "x", "t">>
ExtM3u == <<".", "m", "3", "u">>
Unknown == <<"U", "n", "k", "n", "o", "w", "n">>
Comma == <<",">>
NewLine == <<"\n">>
Separator == <<" ", "-", " ">>
Hash == <<"#">>

\* what the dialog returns when the user cancels it
Cancel == [base |-> Undefined, ext |-> Undefined]

\* the playlist an import builds, or the message of its early return or of
\* the error it throws
Built(playlist) == [ok |-> TRUE, thrown |-> FALSE, playlist |-> playlist, message |-> ""]
Failed(message) == [ok |-> FALSE, thrown |-> FALSE, playlist |-> Idle, message |-> message]
Thrown(message) == [ok |-> FALSE, thrown |-> TRUE, playlist |-> Idle, message |-> message]

\* JSON text whose value is null
JsonNull == [null |-> TRUE]

\* an import that reads the songs from a property the record does not have
ImportJsonNoSongs(path, content) ==
  LET parsed == JSONparse(content)
      data == parsed.value
  IN IF ~parsed.ok THEN Thrown(SyntaxErrorMsg)
     ELSE IF data = JsonNull THEN Thrown(TypeErrorMsg)
     ELSE Built(Playlist(
            IF Falsy(Get(data, "name")) THEN basename(path, extname(path)) ELSE data.name,
            <<>>,
            IF Falsy(Get(data, "created")) THEN toISOString(now) ELSE data.created,
            toISOString(now)))

\* lines 117-124
ImportJson(path, content) ==
  LET parsed == JSONparse(content)
      data == parsed.value
  IN IF ~parsed.ok THEN Thrown(SyntaxErrorMsg)
     ELSE IF data = JsonNull THEN Thrown(TypeErrorMsg)
     ELSE Built(Playlist(
            IF Falsy(Get(data, "name")) THEN basename(path, extname(path)) ELSE data.name,
            IF "songs" \in DOMAIN data THEN data.songs ELSE <<>>,
            IF Falsy(Get(data, "created")) THEN toISOString(now) ELSE data.created,
            toISOString(now)))

\* content.split('\n').filter(line => line.trim())
NonBlankLines(chars) == SelectSeq(split(chars, NewLine), LAMBDA line : trim(line) # <<>>)

\* header.findIndex(h => h.toLowerCase().includes(word)): 0-based, -1 when none
findIndex(header, word) ==
  LET hits == {i \in 1..Len(header) : includes(toLowerCase(header[i]), word)}
  IN IF hits = {} THEN -1 ELSE (CHOOSE i \in hits : \A j \in hits : i <= j) - 1

\* parts[k] for a 0-based k
At(parts, k) == IF k + 1 \in DOMAIN parts THEN parts[k + 1] ELSE Undefined

Max(a, b) == IF a >= b THEN a ELSE b

\* the column indices of lines 133-137
Columns(header) ==
  [mediaId |-> findIndex(header, <<"m", "e", "d", "i", "a", "i", "d">>),
   title |-> findIndex(header, <<"t", "i", "t", "l", "e">>),
   artists |-> findIndex(header, <<"a", "r", "t", "i", "s", "t", "s">>),
   playlistName |-> findIndex(header, <<"p", "l", "a", "y", "l", "i", "s", "t", "n", "a", "m", "e">>),
   duration |-> findIndex(header, <<"d", "u", "r", "a", "t", "i", "o", "n">>)]

\* line 149: the row is long enough for the media id, title and artists columns
RowAccepted(parts, col) == Len(parts) > Max(col.mediaId, Max(col.title, col.artists))

\* line 154 calls trim on parts[durationIdx]: a TypeError when it is undefined
RowThrows(parts, col) ==
  RowAccepted(parts, col) /\ col.duration >= 0 /\ At(parts, col.duration) = Undefined

\* a row whose artist is "Unknown" whenever the header has no artists column
RowSongNoFallback(parts, col) ==
  [videoId |-> IF col.mediaId >= 0 THEN trim(At(parts, col.mediaId)) ELSE <<>>,
   title |-> IF col.title >= 0 THEN trim(At(parts, col.title))
             ELSE IF At(parts, 1) = Undefined THEN <<>> ELSE trim(At(parts, 1)),
   artist |-> IF col.artists >= 0 THEN trim(At(parts, col.artists)) ELSE Unknown,
   duration |-> IF col.duration >= 0 THEN trim(At(parts, col.duration)) ELSE Undefined]

\* lines 150-155
RowSong(parts, col) ==
  [videoId |-> IF col.mediaId >= 0 THEN trim(At(parts, col.mediaId)) ELSE <<>>,
   title |-> IF col.title >= 0 THEN trim(At(parts, col.title))
             ELSE IF At(parts, 1) = Undefined THEN <<>> ELSE trim(At(parts, 1)),
   artist |-> IF col.artists >= 0 THEN trim(At(parts, col.artists))
              ELSE IF At(parts, 2) = Undefined \/ trim(At(parts, 2)) = <<>> THEN Unknown
              ELSE trim(At(parts, 2)),
   duration |-> IF col.duration >= 0 THEN trim(At(parts, col.duration)) ELSE Undefined]

\* lines 126-164
ImportCsv(path, content) ==
  LET lines == NonBlankLines(content.chars)
      col == Columns(split(lines[1], Comma))
      rows == [i \in 1..(Len(lines) - 1) |-> split(lines[i + 1], Comma)]
      playlistName == IF Len(lines) >= 2 /\ col.playlistName >= 0
                      THEN At(rows[1], col.playlistName)
                      ELSE basename(path, extname(path))
      accepted == SelectSeq(rows, LAMBDA parts : RowAccepted(parts, col))
  IN IF Len(lines) = 0 THEN Failed("Empty CSV file")
     ELSE IF \E i \in 1..Len(rows) : RowThrows(rows[i], col) THEN Thrown(TypeErrorMsg)
     ELSE Built(Playlist(playlistName,
                         [i \in 1..Len(accepted) |-> RowSong(accepted[i], col)],
                         toISOString(now), toISOString(now)))

\* lines 166-169
SongLines(chars) ==
  SelectSeq(split(chars, NewLine),
            LAMBDA line : trim(line) # <<>> /\ ~startsWith(trim(line), Hash))

\* lines 173-187
LineSong(line) ==
  LET parts == split(line, Separator)
  IN IF Len(parts) >= 2
     THEN Song(<<>>, trim(parts[2]), trim(parts[1]))
     ELSE Song(trim(line), trim(line), Unknown)

\* lines 166-190
ImportTxt(path, content) ==
  LET lines == SongLines(content.chars)
  IN Built(Playlist(basename(path, extname(path)),
                    [i \in 1..Len(lines) |-> LineSong(lines[i])],
                    toISOString(now), toISOString(now)))

\* lines 117-193: the dispatch on the extension.  Text that is read as JSON
\* does not parse; JSON text is read as JSON only
ImportPlaylist(path, content) ==
  LET ext == extname(path)
  IN IF ext = ExtJson THEN ImportJson(path, content)
     ELSE IF ext = ExtCsv THEN ImportCsv(path, content)
     ELSE IF ext = ExtTxt \/ ext = ExtM3u THEN ImportTxt(path, content)
     ELSE Failed("Unsupported file format")

\* lines 107-204 once the dialog has returned picked: the statements inside
\* try (readFileSync throws when the picked file cannot be read)
ImportBody(picked, outcome) ==
  LET built == ImportPlaylist(picked, disk[picked])
  IN IF picked = Cancel THEN Result(FALSE, "Import cancelled")
     ELSE IF picked \notin DOMAIN disk THEN Throw(IOError)
     ELSE IF built.thrown THEN Throw(built.message)
     ELSE IF ~built.ok THEN Result(FALSE, built.message)
     ELSE IF built.playlist.name = Undefined THEN Throw(TypeErrorMsg)
     ELSE IF outcome # "ok" THEN Throw(IOError)
     ELSE [success |-> TRUE, message |-> "Playlist imported",
           name |-> built.playlist.name, count |-> Len(built.playlist.songs)]

ImportResult(picked, outcome) == Catch(ImportBody(picked, outcome))

\* lines 195-203: the file written to playlistsDir
ImportFiles(picked, outcome) ==
  LET built == ImportPlaylist(picked, disk[picked])
  IN IF picked = Cancel THEN files
     ELSE IF picked \notin DOMAIN disk THEN files
     ELSE IF ~built.ok THEN files
     ELSE IF built.playlist.name = Undefined THEN files
     ELSE writeFileSync(files, fileName(built.playlist.name),
                        JSONstringify(Stamp(built.playlist)), outcome)

InvokeImport == invoke([op |-> "import"])

\* the handler shows the open dialog at once and runs on when it returns
HandleImport ==
  /\ \E r \in Handling("import"), picked \in {Cancel} \cup offered,
        outcome \in WriteOutcomes :
       /\ files' = ImportFiles(picked, outcome)
       /\ Completed(r, picked, ImportResult(picked, outcome))
  /\ UNCHANGED <<callers, cap, offered, formats, document, renderer, dirReadable, disk, now>>

-----------------------------------------------------------------------------
(* export-playlist-file *)

\* `${value}` in a template literal
Str(v) == IF v = Undefined THEN <<"u", "n", "d", "e", "f", "i", "n", "e", "d">> ELSE v

\* song.duration || fallback, song.videoId ? ... : ''
OrElse(v, fallback) == IF Falsy(v) THEN fallback ELSE v

CsvHeader == <<"P", "l", "a", "y", "l", "i", "s", "t", "N", "a", "m", "e", ",", "M", "e", "d", "i", "a", "I", "d", ",", "T", "i", "t", "l", "e", ",", "A", "r", "t", "i", "s", "t", "s", ",", "D", "u", "r", "a", "t", "i", "o", "n">> \o NewLine

\* lines 233-235
CsvLine(playlist, song) ==
  join(<<Str(Get(playlist, "name")), Str(Get(song, "videoId")), Str(Get(song, "title")),
         Str(Get(song, "artist")), OrElse(Get(song, "duration"), <<>>)>>, Comma)

\* line 240
M3uEntry(song) ==
  <<"#", "E", "X", "T", "I", "N", "F", ":">> \o OrElse(Get(song, "duration"), <<"-", "1">>) \o Comma
  \o Str(Get(song, "artist")) \o Separator \o Str(Get(song, "title"))
  \o NewLine \o Str(Get(song, "videoId"))

\* line 244
TxtLine(song) ==
  Str(Get(song, "artist")) \o Separator \o Str(Get(song, "title"))
  \o (IF Falsy(Get(song, "videoId")) THEN <<>>
      ELSE <<" ", "[">> \o song.videoId \o <<"]">>)

SupportedFormats == {"json", "csv", "txt", "m3u"}

\* lines 229-246: the content for a supported format
ExportContent(playlist, format) ==
  LET songs == playlist.songs
  IN CASE format = "json" -> JSONstringify(playlist)
       [] format = "csv" ->
            Text(CsvHeader \o join([i \in 1..Len(songs) |-> CsvLine(playlist, songs[i])], NewLine))
       [] format = "m3u" ->
            Text(<<"#", "E", "X", "T", "M", "3", "U">> \o NewLine
                 \o join([i \in 1..Len(songs) |-> M3uEntry(songs[i])], NewLine))
       [] format = "txt" ->
            Text(join([i \in 1..Len(songs) |-> TxtLine(songs[i])], NewLine))

\* line 214: playlist.name throws when playlist is null, before the dialog
ExportThrowsEarly(playlist) == playlist = Null

\* lines 233-243: playlist.songs.map throws when playlist has no songs
ExportThrows(playlist, format) ==
  format \in {"csv", "txt", "m3u"} /\ "songs" \notin DOMAIN playlist

\* an export that writes the file before it looks at the format
ExportDiskUnchecked(playlist, format, picked, outcome) ==
  IF ExportThrowsEarly(playlist) \/ picked = Cancel THEN disk
  ELSE writeFileSync(disk, picked,
         IF format \in SupportedFormats THEN ExportContent(playlist, format) ELSE Text(<<>>),
         outcome)

\* lines 223-251: the file the export leaves at the picked path
ExportDisk(playlist, format, picked, outcome) ==
  IF ExportThrowsEarly(playlist) \/ picked = Cancel THEN disk
  ELSE IF format \notin SupportedFormats \/ ExportThrows(playlist, format) THEN disk
  ELSE writeFileSync(disk, picked, ExportContent(playlist, format), outcome)

\* lines 213-252: the statements inside try
ExportBody(playlist, format, picked, outcome) ==
  IF ExportThrowsEarly(playlist) THEN Throw(TypeErrorMsg)
  ELSE IF picked = Cancel THEN Result(FALSE, "Export cancelled")
  ELSE IF format \notin SupportedFormats THEN Result(FALSE, "Unsupported format")
  ELSE IF ExportThrows(playlist, format) THEN Throw(TypeErrorMsg)
  ELSE IF outcome # "ok" THEN Throw(IOError)
  ELSE Result(TRUE, "Playlist exported successfully")

ExportResult(playlist, format, picked, outcome) ==
  Catch(ExportBody(playlist, format, picked, outcome))

\* the formats callers pass: the supported ones and one that is not
Formats == SupportedFormats \cup {"xml"}

\* the paths the save dialog returns for a format: the user keeps the
\* extension of the proposed `${playlist.name}.${format}`
FormatExt(format) ==
  CASE format = "json" -> ExtJson
    [] format = "csv" -> ExtCsv
    [] format = "txt" -> ExtTxt
    [] format = "m3u" -> ExtM3u
    [] OTHER -> <<".", "x", "m", "l">>
ExportPaths(format) == {Path(<<"e">>, FormatExt(format))}

InvokeExport ==
  \E p \in callers, format \in formats :
    invoke([op |-> "export", playlist |-> p, format |-> format])

\* the handler shows the save dialog at once and runs on when it returns
HandleExport ==
  /\ \E r \in Handling("export"), outcome \in WriteOutcomes :
       \E picked \in IF ExportThrowsEarly(r.req.playlist) THEN {Idle}
                      ELSE {Cancel} \cup ExportPaths(r.req.format) :
         /\ disk' = ExportDisk(r.req.playlist, r.req.format, picked, outcome)
         /\ Completed(r, picked, ExportResult(r.req.playlist, r.req.format, picked, outcome))
  /\ UNCHANGED <<callers, cap, offered, formats, document, renderer, files, dirReadable, now>>

-----------------------------------------------------------------------------
(* Environment *)

NoOp == [op |-> "none", req |-> Idle, picked |-> Idle, result |-> Idle, prev |-> NoPrev]

\* the clock advances
Tick ==
  /\ now < MaxClock
  /\ now' = now + 1
  /\ UNCHANGED <<callers, cap, offered, formats, document, renderer, files, dirReadable, disk, inflight, last, tasks>>

\* the permissions of playlistsDir change, which ends the run of handler calls
EnvChmod ==
  /\ dirReadable' = ~dirReadable
  /\ last' = [NoOp EXCEPT !.op = "env"]
  /\ UNCHANGED <<callers, cap, offered, formats, document, renderer, tasks, files, disk, inflight, now>>

-----------------------------------------------------------------------------
(* The store *)

\* files found in playlistsDir at start: one that is not a playlist, and a
\* playlist saved by an earlier run
NotesTxt == <<"n", ".", "t", "x", "t">>
OldJson == <<"z", ".", "j", "s", "o", "n">>
OldPlaylist == Playlist(<<"z">>, <<SongA>>, toISOString(0), toISOString(0))

\* backend.start: playlistsDir is created when missing and kept, with what it
\* holds, when it exists
InitialDirs ==
  {<<>>,
   NotesTxt :> Text(<<"x">>),
   OldJson :> JSONstringify(OldPlaylist),
   (NotesTxt :> Text(<<"x">>)) @@ (OldJson :> JSONstringify(OldPlaylist))}

\* the page and the renderer before renderer.start
NoDocument == [host |-> {}, nav |-> 0, navMini |-> 0, pages |-> <<>>, navListeners |-> 0]
NoRenderer == [started |-> FALSE, stopped |-> FALSE, interval |-> FALSE, attempts |-> 0,
               detected |-> FALSE, sidebarTimer |-> FALSE, verifyTimer |-> FALSE,
               added |-> 0, spawned |-> 0]

\* the backend runs and the renderer has not started
NoPage ==
  /\ document = NoDocument
  /\ tasks = {}
  /\ renderer = NoRenderer

InitStore ==
  /\ offered = {}
  /\ formats = {}
  /\ NoPage
  /\ files \in InitialDirs
  /\ dirReadable = TRUE
  /\ disk = <<>>
  /\ inflight = {}
  /\ now = 1
  /\ last = NoOp

StoreNames == {<<"A">>, <<"a">>}

StorePlaylists ==
  {Playlist(n, s, c, c) : n \in StoreNames, s \in SongLists, c \in CallerCreated}

Init ==
  /\ callers = StorePlaylists
  /\ cap = 1
  /\ InitStore

Next ==
  \/ InvokeList
  \/ HandleList
  \/ InvokeSave
  \/ createFromQueue
  \/ HandleSave
  \/ InvokeDelete
  \/ HandleDelete
  \/ Tick
  \/ EnvChmod

Spec == Init /\ [][Next]_vars

-----------------------------------------------------------------------------
(* Properties of the store *)

JsonFiles == {f \in DOMAIN files : endsWith(f, DotJson)}

\* the directory can be listed and every '.json' file in it parses
ListingLoads == dirReadable /\ \A f \in JsonFiles : files[f].kind = "json"

\* two song sequences with the same songs in the same order: every property
\* reads the same in both
SongKeys == {"videoId", "title", "artist", "album", "duration"}
SameSongs(s, t) ==
  /\ Len(s) = Len(t)
  /\ \A i \in 1..Len(s) : \A k \in SongKeys : Get(s[i], k) = Get(t[i], k)

\* a listing that directly follows a successful save-playlist of a named
\* playlist, and loads
ListedAfterSave ==
  /\ last.op = "list"
  /\ last.prev.req.op = "save"
  /\ last.prev.result.success
  /\ last.prev.req.playlist.name # <<>>
  /\ ListingLoads

\* C1 as stated: save(p) directly followed by listAll() returns a playlist
\* whose name, songs and created equal p's.
C1_SaveThenListKeepsCreated ==
  ListedAfterSave =>
    LET p == last.prev.req.playlist
    IN \E i \in 1..Len(last.result) :
         /\ last.result[i].name = p.name
         /\ SameSongs(last.result[i].songs, p.songs)
         /\ last.result[i].created = p.created

\* C1 amended: when save(p) succeeded and the listing that directly follows
\* loads, it returns a playlist with p's name and songs, whose created is
\* p's when p has one and is the modified time save assigned otherwise.
C1_SaveThenList ==
  ListedAfterSave =>
    LET p == last.prev.req.playlist
    IN \E i \in 1..Len(last.result) :
         /\ last.result[i].name = p.name
         /\ SameSongs(last.result[i].songs, p.songs)
         /\ last.result[i].created =
              IF p.created # <<>> THEN p.created ELSE last.result[i].modified

C1_Witness ==
  /\ ListedAfterSave
  /\ last.prev.req.playlist.created = <<>>
  /\ last.prev.req.playlist.songs # <<>>
  /\ Len(last.result) = 2

\* C2 as stated: once a record is stored for a playlist name, a later write of
\* a record for that name leaves its created as the first save wrote it.
C2_CreatedNeverChanges ==
  [][\A f \in DOMAIN files \cap DOMAIN files' :
       (/\ files[f].kind = "json"
        /\ files'[f].kind = "json"
        /\ files'[f].value.name = files[f].value.name)
       => files'[f].value.created = files[f].value.created]_vars

\* C4: a listing is empty when the directory cannot be read or some '.json'
\* file does not parse, and otherwise holds exactly the parsed record of each
\* '.json' file, whatever other files the directory holds.
C4_ListAllOrNothing ==
  last.op = "list" =>
    IF ListingLoads
    THEN \E o \in Orderings(JsonFiles) :
           /\ Len(last.result) = Len(o)
           /\ \A i \in 1..Len(o) : last.result[i] = files[o[i]].value
    ELSE Len(last.result) = 0

C4_Witness ==
  /\ last.op = "list"
  /\ dirReadable
  /\ \E f, g \in JsonFiles : files[f].kind = "json" /\ files[g].kind # "json"
  /\ NotesTxt \in DOMAIN files
  /\ Len(last.result) = 0

\* C5: a delete-playlist of a name whose file does not exist answers
\* 'Playlist not found', which no I/O error answers, and changes no file.
C5_DeleteNotFound ==
  [][\A r \in inflight \ inflight' :
       (r.req.op = "delete" /\ fileName(r.req.name) \notin DOMAIN files)
       => /\ last'.result = Result(FALSE, "Playlist not found")
          /\ last'.result.message # IOError
          /\ files' = files]_vars

C5_Witness ==
  /\ last.op = "delete"
  /\ last.result = Result(FALSE, "Playlist not found")
  /\ OldJson \in DOMAIN files

-----------------------------------------------------------------------------
(* Concurrent saves: the callers keep MaxInflight requests in flight *)

\* two playlists whose names derive one file name
RacePlaylists ==
  {Playlist(<<"A">>, <<SongA, SongB>>, toISOString(0), toISOString(0)),
   Playlist(<<"a">>, <<>>, <<>>, <<>>)}

InitRace ==
  /\ callers = RacePlaylists
  /\ cap = MaxInflight
  /\ InitStore
  /\ files = <<>>

NextRace ==
  \/ InvokeSave
  \/ createFromQueue
  \/ HandleSave
  \/ Tick

SpecRace == InitRace /\ [][NextRace]_vars

\* C6: after a save-playlist that wrote, the file of its name holds exactly
\* its own record (its name, its songs, its created, a fresh modified and
\* nothing else), also when another save of the same file name was in flight
\* with it; and a save answers success or an I/O error, never a conflict.
C6_LastWriteWins ==
  last.op = "save" =>
    /\ last.result \in {Result(TRUE, "Playlist saved successfully"), Result(FALSE, IOError)}
    /\ last.result.success =>
         LET p == last.req.playlist
             file == fileName(p.name)
         IN /\ file \in DOMAIN files
            /\ files[file].kind = "json"
            /\ DOMAIN files[file].value = {"name", "songs", "created", "modified"}
            /\ files[file].value.name = p.name
            /\ SameSongs(files[file].value.songs, p.songs)
            /\ files[file].value.created \in {p.created, files[file].value.modified}
            /\ \E t \in 1..now : files[file].value.modified = toISOString(t)

\* two saves of different records under one file name, in flight together,
\* have both written
C6_Witness ==
  /\ last.op = "save"
  /\ last.result.success
  /\ last.prev.overlapped
  /\ last.prev.req.op = "save"
  /\ last.prev.result.success
  /\ last.prev.req.playlist.name # last.req.playlist.name
  /\ fileName(last.prev.req.playlist.name) = fileName(last.req.playlist.name)
  /\ last.prev.req.playlist.songs # <<>>
  /\ last.req.playlist.songs = <<>>

-----------------------------------------------------------------------------
(* Import and export: the files the dialogs can pick *)

ExtXml == <<".", "x", "m", "l">>
ExtUpperTxt == <<".", "T", "X", "T">>

\* files on the disk at start: a playlist record without created, a text
\* file, a file with an upper-case extension and one of another format
SourceFiles ==
  (Path(<<"p">>, ExtJson) :> JSONstringify([name |-> <<"P">>, songs |-> <<SongA>>]))
  @@ (Path(<<"t">>, ExtTxt) :> Text(<<"r", " ", "-", " ", "t">> \o NewLine \o <<"v">>))
  @@ (Path(<<"u">>, ExtUpperTxt) :> Text(<<"v">>))
  @@ (Path(<<"x">>, ExtXml) :> Text(<<"<", "x", "/", ">">>))

FilesPlaylists == {Playlist(<<"A">>, <<SongA, SongB>>, toISOString(0), toISOString(0))}

InitFiles ==
  /\ callers = FilesPlaylists
  /\ cap = 1
  /\ offered = DOMAIN SourceFiles
  /\ formats = Formats
  /\ NoPage
  /\ files = <<>>
  /\ dirReadable = TRUE
  /\ disk = SourceFiles
  /\ inflight = {}
  /\ now = 1
  /\ last = NoOp

NextFiles ==
  \/ InvokeImport
  \/ HandleImport
  \/ InvokeExport
  \/ HandleExport

SpecFiles == InitFiles /\ [][NextFiles]_vars

SupportedExts == {ExtJson, ExtCsv, ExtTxt, ExtM3u}

\* C10: an export of a format other than json, csv, m3u and txt, and an
\* import of a file whose extension (in any letter case) is none of .json,
\* .csv, .txt and .m3u, answer a failure and leave every file as it was, in
\* playlistsDir and at the picked path.
C10_FormatFailureTouchesNoFile ==
  [][\A r \in inflight \ inflight' :
       /\ (r.req.op = "export" /\ r.req.format \notin {"json", "csv", "m3u", "txt"})
          => (~last'.result.success /\ disk' = disk /\ files' = files)
       /\ (/\ r.req.op = "import"
           /\ last'.picked # Cancel
           /\ toLowerCase(last'.picked.ext) \notin SupportedExts)
          => (~last'.result.success /\ disk' = disk /\ files' = files)]_vars

\* the save dialog returned a path for an export as xml, after an import
\* had stored a playlist
C10_Witness ==
  /\ last.op = "export"
  /\ last.req.format = "xml"
  /\ last.picked = Path(<<"e">>, ExtXml)
  /\ last.result = Result(FALSE, "Unsupported format")
  /\ last.picked \notin DOMAIN disk
  /\ DOMAIN files # {}

-----------------------------------------------------------------------------
(* File name derivation: one caller, names of up to MaxLen characters *)

\* a lower-case and an upper-case letter, a digit, a space, punctuation, the
\* underscore, a dot and a code unit outside ASCII
NameAlphabet == {"a", "Z", "7", " ", "!", "_", ".", "U+00E9"}

RECURSIVE Strings(_, _)
Strings(alphabet, n) ==
  IF n = 0 THEN {<<>>}
  ELSE LET shorter == Strings(alphabet, n - 1)
       IN shorter \cup {Append(t, c) : t \in {u \in shorter : Len(u) = n - 1}, c \in alphabet}

MyPlaylistBang == <<"M", "y", " ", "P", "l", "a", "y", "l", "i", "s", "t", "!">>
MyPlaylistSpace == <<"m", "y", "_", "p", "l", "a", "y", "l", "i", "s", "t", " ">>

Unsaved(name) == Playlist(name, <<>>, <<>>, <<>>)

InitFileName ==
  /\ callers \in {{Unsaved(n)} : n \in Strings(NameAlphabet, MaxLen)}
                 \cup {{Unsaved(MyPlaylistBang), Unsaved(MyPlaylistSpace)}}
  /\ cap = 1
  /\ InitStore
  /\ files = <<>>

NextFileName ==
  \/ InvokeSave
  \/ HandleSave
  \/ InvokeDelete
  \/ HandleDelete

SpecFileName == InitFileName /\ [][NextFileName]_vars

\* the file name the rule gives: each letter in lower case, each digit kept,
\* every other character an underscore, then '.json'
RuleChar(c) ==
  IF \E i \in 1..26 : c \in {Lowers[i], Uppers[i]}
  THEN Lowers[CHOOSE i \in 1..26 : c \in {Lowers[i], Uppers[i]}]
  ELSE IF c \in Digits THEN c ELSE "_"
RuleFileName(name) == [i \in 1..Len(name) |-> RuleChar(name[i])] \o <<".", "j", "s", "o", "n">>

\* the derived name without its suffix
Sanitized(name) == SubSeq(fileName(name), 1, Len(fileName(name)) - 5)

\* every record is stored under the file name the rule gives for its name, a
\* delete removes the file of that name, and deriving twice changes nothing
FileNameRule ==
  /\ \A f \in DOMAIN files :
       files[f].kind = "json" => f = RuleFileName(files[f].value.name)
  /\ (last.op = "delete" /\ last.result.success)
       => RuleFileName(last.req.name) \notin DOMAIN files
  /\ \A n \in names : Sanitized(Sanitized(n)) = Sanitized(n)

\* the file that holds a record named as one of the two examples
ExampleFiles ==
  {f \in DOMAIN files : /\ files[f].kind = "json"
                        /\ files[f].value.name \in {MyPlaylistBang, MyPlaylistSpace}}

\* C3 as stated: the rule, and "My Playlist!" and "my_playlist " are both
\* stored as "my_playlist.json".
C3_FileNameAsStated ==
  /\ FileNameRule
  /\ \A f \in ExampleFiles : f = <<"m", "y", "_", "p", "l", "a", "y", "l", "i", "s", "t", ".", "j", "s", "o", "n">>

\* C3 amended: the rule, and "My Playlist!" and "my_playlist " are both
\* stored as "my_playlist_.json" (the last character of each becomes an
\* underscore).
C3_FileName ==
  /\ FileNameRule
  /\ \A f \in ExampleFiles : f = <<"m", "y", "_", "p", "l", "a", "y", "l", "i", "s", "t", "_", ".", "j", "s", "o", "n">>

C3_Witness ==
  /\ last.op = "save"
  /\ last.result.success
  /\ last.req.playlist.name = MyPlaylistBang
  /\ DOMAIN files = {<<"m", "y", "_", "p", "l", "a", "y", "l", "i", "s", "t", "_", ".", "j", "s", "o", "n">>}
  /\ [req |-> [op |-> "delete", name |-> MyPlaylistSpace], waited |-> FALSE] \in inflight

-----------------------------------------------------------------------------
(* CSV import: one file of a header and up to MaxLines - 1 rows *)

RECURSIVE Tuples(_, _)
Tuples(S, n) ==
  IF n = 0 THEN {<<>>}
  ELSE LET shorter == Tuples(S, n - 1)
       IN shorter \cup {Append(t, x) : t \in {u \in shorter : Len(u) = n - 1}, x \in S}

\* the header the export writes, headers that lack columns, and one whose
\* duration column lies beyond the others
CsvHeaders ==
  {<<"P", "l", "a", "y", "l", "i", "s", "t", "N", "a", "m", "e", ",", "M", "e", "d", "i", "a", "I", "d", ",", "T", "i", "t", "l", "e", ",", "A", "r", "t", "i", "s", "t", "s", ",", "D", "u", "r", "a", "t", "i", "o", "n">>,
   <<"T", "i", "t", "l", "e", ",", "A", "r", "t", "i", "s", "t", "s">>,
   <<"M", "e", "d", "i", "a", "I", "d", ",", "T", "i", "t", "l", "e">>,
   <<"I", "d", ",", "W", "h", "a", "t", ",", "W", "h", "o">>,
   <<"T", "i", "t", "l", "e", ",", "A", "r", "t", "i", "s", "t", "s", ",", "X", ",", "D", "u", "r", "a", "t", "i", "o", "n">>}

\* rows of five fields to one, one of them padded with spaces
CsvRows == {<<"P", ",", "v", ",", "t", ",", "r", ",", "9">>, <<"P", ",", "v", ",", "t", ",", "r">>, <<"v", ",", "t", ",", " ", "B", "o", "b", " ">>, <<"t", ",", "r">>, <<"v">>}

CsvTexts ==
  {join(<<h>> \o rows, NewLine) : h \in CsvHeaders, rows \in Tuples(CsvRows, MaxLines - 1)}

InitImport(path, contents) ==
  /\ callers = {}
  /\ cap = 1
  /\ offered = {path}
  /\ formats = {}
  /\ NoPage
  /\ files = <<>>
  /\ dirReadable = TRUE
  /\ \E chars \in contents : disk = (path :> Text(chars))
  /\ inflight = {}
  /\ now = 1
  /\ last = NoOp

InitCsv == InitImport(Path(<<"c">>, ExtCsv), CsvTexts)

NextImport ==
  \/ InvokeImport
  \/ HandleImport

SpecCsv == InitCsv /\ [][NextImport]_vars

\* the import that completed last read a file of the extension ext
Imported(ext) ==
  /\ last.op = "import"
  /\ last.picked # Cancel
  /\ toLowerCase(last.picked.ext) = ext

\* the songs it stored
StoredSongs == files[fileName(last.result.name)].value.songs

\* the fields of the header and of the data lines of the CSV file it read
CsvFields == LET lines == NonBlankLines(disk[last.picked].chars)
             IN [i \in 1..Len(lines) |-> split(lines[i], Comma)]
DataRows == Tail(CsvFields)

\* the 0-based position of the first header field containing word, -1 if none
ColumnOf(word) ==
  LET header == CsvFields[1]
      at == {i \in 1..Len(header) : includes(toLowerCase(header[i]), word)}
  IN IF at = {} THEN -1 ELSE (CHOOSE i \in at : \A j \in at : i <= j) - 1

HighestColumn ==
  LET idx == {ColumnOf(<<"m", "e", "d", "i", "a", "i", "d">>), ColumnOf(<<"t", "i", "t", "l", "e">>), ColumnOf(<<"a", "r", "t", "i", "s", "t", "s">>),
              ColumnOf(<<"p", "l", "a", "y", "l", "i", "s", "t", "n", "a", "m", "e">>), ColumnOf(<<"d", "u", "r", "a", "t", "i", "o", "n">>)}
  IN CHOOSE m \in idx : \A k \in idx : k <= m

\* C7 as stated: a data line with fewer fields than the highest detected
\* column index is skipped, the other lines are imported, and the import does
\* not fail because of the short line (it fails only when the write fails).
C7_ShortCsvLineSkipped ==
  (Imported(ExtCsv) /\ disk[last.picked].chars # <<>>) =>
    LET long == SelectSeq(DataRows, LAMBDA parts : Len(parts) > HighestColumn)
        notShort == SelectSeq(DataRows, LAMBDA parts : Len(parts) >= HighestColumn)
    IN /\ ~last.result.success => last.result.message = IOError
       /\ last.result.success =>
            /\ Len(StoredSongs) >= Len(long)
            /\ Len(StoredSongs) <= Len(notShort)

\* the data lines that became songs (line 149)
ImportedRows ==
  LET m == Max(ColumnOf(<<"m", "e", "d", "i", "a", "i", "d">>), Max(ColumnOf(<<"t", "i", "t", "l", "e">>), ColumnOf(<<"a", "r", "t", "i", "s", "t", "s">>)))
  IN SelectSeq(DataRows, LAMBDA parts : Len(parts) > m)

\* the duration of every imported line: absent without a duration column,
\* the text at the column otherwise
DurationRule ==
  \A i \in 1..Len(ImportedRows) :
    IF ColumnOf(<<"d", "u", "r", "a", "t", "i", "o", "n">>) < 0 THEN "duration" \notin DOMAIN StoredSongs[i]
    ELSE StoredSongs[i].duration = trim(ImportedRows[i][ColumnOf(<<"d", "u", "r", "a", "t", "i", "o", "n">>) + 1])

\* C9 as stated: without an artists column every imported song's artist is
\* "Unknown"; with one it is the text at the column; and the duration rule.
C9_CsvDefaultsAsStated ==
  (Imported(ExtCsv) /\ last.result.success) =>
    /\ Len(StoredSongs) = Len(ImportedRows)
    /\ DurationRule
    /\ \A i \in 1..Len(ImportedRows) :
         StoredSongs[i].artist =
           IF ColumnOf(<<"a", "r", "t", "i", "s", "t", "s">>) < 0 THEN Unknown
           ELSE trim(ImportedRows[i][ColumnOf(<<"a", "r", "t", "i", "s", "t", "s">>) + 1])

\* C9 amended: without an artists column an imported song's artist is the
\* third field of its line, trimmed, when the line has one that is not blank,
\* and "Unknown" otherwise; with one it is the text at the column, trimmed;
\* and the duration rule.
C9_CsvDefaults ==
  (Imported(ExtCsv) /\ last.result.success) =>
    /\ Len(StoredSongs) = Len(ImportedRows)
    /\ DurationRule
    /\ \A i \in 1..Len(ImportedRows) :
         StoredSongs[i].artist =
           IF ColumnOf(<<"a", "r", "t", "i", "s", "t", "s">>) >= 0 THEN trim(ImportedRows[i][ColumnOf(<<"a", "r", "t", "i", "s", "t", "s">>) + 1])
           ELSE IF Len(ImportedRows[i]) >= 3 /\ trim(ImportedRows[i][3]) # <<>>
                THEN trim(ImportedRows[i][3])
           ELSE Unknown

\* a file without artists and duration columns was imported: one song took
\* its artist from the third field, another had none and is "Unknown"
C9_Witness ==
  /\ Imported(ExtCsv)
  /\ last.result.success
  /\ ColumnOf(<<"a", "r", "t", "i", "s", "t", "s">>) < 0
  /\ ColumnOf(<<"d", "u", "r", "a", "t", "i", "o", "n">>) < 0
  /\ Len(StoredSongs) = 2
  /\ StoredSongs[1].artist = <<"B", "o", "b">>
  /\ StoredSongs[2].artist = Unknown

-----------------------------------------------------------------------------
(* Text import: one .txt or .m3u file of up to MaxLines lines *)

\* lines with one separator, with two, without any, a comment, an indented
\* comment, a blank line and an empty one
TxtLines == {<<"r", " ", "-", " ", "t">>, <<"r", " ", "-", " ", "t", " ", "-", " ", "u">>, <<" ", "v", " ">>, <<"#", "c">>, <<" ", "#", "c">>, <<" ">>, <<>>}

TxtTexts == {join(lines, NewLine) : lines \in Tuples(TxtLines, MaxLines)}

InitTxt ==
  \/ InitImport(Path(<<"t">>, ExtTxt), TxtTexts)
  \/ InitImport(Path(<<"t">>, ExtM3u), TxtTexts)

SpecTxt == InitTxt /\ [][NextImport]_vars

\* the song the claim gives for a line
ClaimedSong(line) ==
  LET at == indexOf(line, Separator)
  IN IF at > 0
     THEN Song(<<>>, trim(SubSeq(line, at + 3, Len(line))), trim(SubSeq(line, 1, at - 1)))
     ELSE Song(trim(line), trim(line), Unknown)

\* C8 as stated: a .txt or .m3u import stores one song per non-blank line
\* that is not a comment, in file order; a line with " - " gives the artist
\* before its first occurrence and the title of all the text after it.
C8_TxtLinesAsStated ==
  ((Imported(ExtTxt) \/ Imported(ExtM3u)) /\ last.result.success) =>
    LET lines == SelectSeq(split(disk[last.picked].chars, NewLine),
                           LAMBDA line : trim(line) # <<>> /\ trim(line)[1] # "#")
    IN /\ Len(StoredSongs) = Len(lines)
       /\ \A i \in 1..Len(lines) : StoredSongs[i] = ClaimedSong(lines[i])

-----------------------------------------------------------------------------
(* Round trips: one playlist is exported in one format and the file is
   imported *)

\* a song with every optional property, whose artist begins with '#'
SongC == Song(<<"w">>, <<"s">>, <<"#", "1">>) @@ [album |-> <<"l">>, duration |-> <<"9">>]

\* playlists of no song, of resolved and unresolved songs
TripSongLists == {<<>>, <<SongA>>, <<SongA, SongB>>, <<SongB, SongA>>, <<SongC, SongA>>}

TripPlaylists == {Playlist(<<"A">>, s, toISOString(0), toISOString(0)) : s \in TripSongLists}

InitTrip ==
  /\ callers \in {{p} : p \in TripPlaylists}
  /\ cap = 1
  /\ formats \in {{format} : format \in Formats}
  /\ offered = UNION {ExportPaths(format) : format \in formats}
  /\ files = <<>>
  /\ dirReadable = TRUE
  /\ disk = <<>>
  /\ inflight = {}
  /\ now = 1
  /\ last = NoOp
  /\ NoPage

SpecTrip == InitTrip /\ [][NextFiles]_vars

\* the import that completed last stored the songs of the file that an
\* export of p in the format had written
RoundTrip(p, format) ==
  /\ last.op = "import"
  /\ last.picked \in ExportPaths(format)
  /\ last.picked \in DOMAIN disk
  /\ disk[last.picked] = ExportContent(p, format)
  /\ last.result.success

\* C11: importing the file that export(format=json) wrote for a playlist
\* stores a playlist with the same songs, with the same fields, in the same
\* order, also when the playlist has no song.
C11_JsonRoundTrip ==
  \A p \in callers : RoundTrip(p, "json") => SameSongs(StoredSongs, p.songs)

\* a playlist of a resolved song and an unresolved one, whose duration is
\* undefined, went through the round trip
C11_Witness ==
  \E p \in callers :
    /\ RoundTrip(p, "json")
    /\ p.songs = <<SongA, SongB>>
    /\ Len(StoredSongs) = 2
    /\ StoredSongs[1].videoId = <<"v">>
    /\ StoredSongs[2].title = <<"u">>

\* C15 as stated: exporting a playlist as txt or as m3u and importing the
\* file stores as many songs as the playlist has.
C15_TextRoundTripKeepsCount ==
  \A p \in callers, format \in {"txt", "m3u"} :
    RoundTrip(p, format) => Len(StoredSongs) = Len(p.songs)

-----------------------------------------------------------------------------
(* Failures: arguments that are not playlists, files that cannot be read or
   parsed, writes that fail *)

\* a playlist, null, and a record without name and songs
FaultPlaylists ==
  {Playlist(<<"A">>, <<SongA>>, <<>>, <<>>),
   Null,
   [created |-> <<>>, modified |-> <<>>]}

\* files the open dialog can pick: JSON text of the value null, text that is
\* not JSON, and a file that is gone when the handler reads it
NullJson == Path(<<"n">>, ExtJson)
BadJson == Path(<<"b">>, ExtJson)
GoneTxt == Path(<<"g">>, ExtTxt)

FaultFiles ==
  (NullJson :> [kind |-> "json", value |-> JsonNull]) @@ (BadJson :> Text(<<"{", "x">>))

InitFaults ==
  /\ callers = FaultPlaylists
  /\ cap = 1
  /\ formats = {"json", "csv"}
  /\ offered = {NullJson, BadJson, GoneTxt}
  /\ files = <<>>
  /\ dirReadable = TRUE
  /\ disk = FaultFiles
  /\ inflight = {}
  /\ now = 1
  /\ last = NoOp
  /\ NoPage

NextFaults ==
  \/ InvokeList
  \/ HandleList
  \/ InvokeSave
  \/ HandleSave
  \/ InvokeDelete
  \/ HandleDelete
  \/ InvokeImport
  \/ HandleImport
  \/ InvokeExport
  \/ HandleExport
  \/ EnvChmod

SpecFaults == InitFaults /\ [][NextFaults]_vars

\* a success/failure result that carries a message
IsResult(x) ==
  /\ {"success", "message"} \subseteq DOMAIN x
  /\ x.success \in BOOLEAN
  /\ x.message # ""

\* C12: every handler returns a value: get-local-playlists a list; the
\* others a result with a message, which is a failure when the dialog was
\* cancelled, when the argument is not a playlist or a name, and when the
\* file could not be read, parsed or written (a success has left the file
\* it reports).
C12_FailuresAreResults ==
  /\ last.op = "list" => DOMAIN last.result = 1..Len(last.result)
  /\ last.op \in {"save", "delete", "import", "export"} =>
       /\ IsResult(last.result)
       /\ last.picked = Cancel => ~last.result.success
  /\ last.op = "save" =>
       /\ SaveThrows(last.req.playlist) => last.result = Result(FALSE, TypeErrorMsg)
       /\ last.result.success =>
            /\ fileName(last.req.playlist.name) \in DOMAIN files
            /\ files[fileName(last.req.playlist.name)].kind = "json"
  /\ last.op = "delete" =>
       /\ last.req.name = Undefined => last.result = Result(FALSE, TypeErrorMsg)
       /\ last.result.success => fileName(last.req.name) \notin DOMAIN files
  /\ (last.op = "import" /\ last.picked # Cancel) =>
       /\ last.picked \notin DOMAIN disk => last.result = Result(FALSE, IOError)
       /\ last.picked = BadJson => last.result = Result(FALSE, SyntaxErrorMsg)
       /\ last.picked = NullJson => last.result = Result(FALSE, TypeErrorMsg)
       /\ last.result.success => files[fileName(last.result.name)].kind = "json"
  /\ last.op = "export" =>
       /\ last.req.playlist = Null => last.result = Result(FALSE, TypeErrorMsg)
       /\ last.result.success =>
            /\ last.picked \in DOMAIN disk
            /\ disk[last.picked] = ExportContent(last.req.playlist, last.req.format)

\* a save of null was answered with the message of the TypeError, while the
\* directory could not be read
C12_Witness ==
  /\ last.op = "save"
  /\ last.req.playlist = Null
  /\ last.result = Result(FALSE, TypeErrorMsg)
  /\ ~dirReadable
  /\ DOMAIN files # {}

-----------------------------------------------------------------------------
(* Deletes among saves and imports: two names that derive one file name and
   one whose file name begins with theirs *)

DeletePlaylists ==
  {Playlist(n, <<SongA>>, <<>>, <<>>) : n \in {<<"A">>, <<"a">>, <<"a", "b">>}}

\* a text file whose import is stored under the name "a"
ATxt == Path(<<"a">>, ExtTxt)

InitDelete ==
  /\ callers = DeletePlaylists
  /\ cap = 1
  /\ formats = {}
  /\ offered = {ATxt}
  /\ files = <<>>
  /\ dirReadable = TRUE
  /\ disk = (ATxt :> Text(<<"v">>))
  /\ inflight = {}
  /\ now = 1
  /\ last = NoOp
  /\ NoPage

NextDelete ==
  \/ InvokeSave
  \/ HandleSave
  \/ InvokeImport
  \/ HandleImport
  \/ InvokeDelete
  \/ HandleDelete
  \/ InvokeList
  \/ HandleList

SpecDelete == InitDelete /\ [][NextDelete]_vars

\* C13 as stated: the record a successful delete-playlist removes has the
\* name that was passed.
C13_DeleteRemovesOnlyName ==
  [][\A r \in inflight \ inflight' :
       (r.req.op = "delete" /\ last'.result.success)
       => \A f \in DOMAIN files \ DOMAIN files' :
            files[f].kind = "json" => files[f].value.name = r.req.name]_vars

\* a listing that directly follows a successful delete-playlist, and loads
ListedAfterDelete ==
  /\ last.op = "list"
  /\ last.prev.req.op = "delete"
  /\ last.prev.result.success
  /\ ListingLoads

\* C13 amended: a successful delete-playlist removes exactly the file its
\* name derives, whose record has a name that derives the same file name;
\* every other file is left as it was, and the listing that directly follows
\* returns the record of each of them when it loads.
C13_DeleteRemovesFileOfName ==
  /\ [][\A r \in inflight \ inflight' :
          (r.req.op = "delete" /\ last'.result.success)
          => LET file == fileName(r.req.name)
             IN /\ file \in DOMAIN files
                /\ DOMAIN files' = DOMAIN files \ {file}
                /\ \A f \in DOMAIN files' : files'[f] = files[f]
                /\ files[file].kind = "json"
                     => fileName(files[file].value.name) = file]_vars
  /\ [](ListedAfterDelete =>
          \A f \in JsonFiles : \E i \in 1..Len(last.result) : last.result[i] = files[f].value)

\* "a" was deleted while "ab" was stored, and the listing that follows
\* returns "ab"
C13_Witness ==
  /\ ListedAfterDelete
  /\ last.prev.req.name = <<"a">>
  /\ DOMAIN files = {fileName(<<"a", "b">>)}
  /\ Len(last.result) = 1
  /\ last.result[1].name = <<"a", "b">>

-----------------------------------------------------------------------------
(* The renderer: the readiness poll and the sidebar items *)

\* the host's elements the renderer looks for: the three that show the app is
\* ready, and the 'Library' entry of the full and of the mini guide
ReadySelectors == {"ytmusic-app-layout", "ytmusic-nav-bar", "ytmusic-guide-renderer"}
GuideLibrary == "#guide ytmusic-guide-entry-renderer"
MiniGuideLibrary == "#mini-guide ytmusic-guide-entry-renderer"
HostElements == ReadySelectors \cup {GuideLibrary, MiniGuideLibrary}

maxAttempts == 20

\* lines 764-766
appReady == document.host \cap ReadySelectors # {}

\* lines 273-357: nothing when 'local-playlists-nav' exists; else each item
\* is inserted after the 'Library' entry of its guide, when there is one
addSidebarItem(doc) ==
  IF doc.nav > 0 THEN doc
  ELSE [doc EXCEPT !.nav = @ + (IF GuideLibrary \in doc.host THEN 1 ELSE 0),
                   !.navMini = @ + (IF MiniGuideLibrary \in doc.host THEN 1 ELSE 0)]

\* a tick that gives up one attempt late
checkAndCreateLate(r, ready) ==
  LET attempts == r.attempts + 1
  IN IF ready
     THEN [r EXCEPT !.attempts = attempts, !.interval = FALSE,
                    !.detected = TRUE, !.sidebarTimer = TRUE]
     ELSE IF attempts > maxAttempts
     THEN [r EXCEPT !.attempts = attempts, !.interval = FALSE]
     ELSE [r EXCEPT !.attempts = attempts]

\* lines 760-791: the callback of setInterval.  detected records that a tick
\* has found the app ready
checkAndCreate(r, ready) ==
  LET attempts == r.attempts + 1
  IN IF ready
     THEN [r EXCEPT !.attempts = attempts, !.interval = FALSE,
                    !.detected = TRUE, !.sidebarTimer = TRUE]
     ELSE IF attempts >= maxAttempts
     THEN [r EXCEPT !.attempts = attempts, !.interval = FALSE]
     ELSE [r EXCEPT !.attempts = attempts]

\* what the renderer's timers and the host leave alone
StoreUnchanged ==
  UNCHANGED <<callers, cap, offered, formats, files, dirReadable, disk, inflight, now, last>>

\* renderer.start: initUI starts the poll (at once, or at DOMContentLoaded)
start ==
  /\ ~renderer.started
  /\ renderer' = [renderer EXCEPT !.started = TRUE, !.interval = TRUE, !.attempts = 0]
  /\ UNCHANGED <<document, tasks>>
  /\ StoreUnchanged

\* the interval fires, which it does until clearInterval
PollTick ==
  /\ renderer.interval
  /\ renderer' = checkAndCreate(renderer, appReady)
  /\ UNCHANGED <<document, tasks>>
  /\ StoreUnchanged

\* lines 773-786: the timeout set at detection fires; added counts the calls
\* of addSidebarItem
SidebarTimeout ==
  /\ renderer.sidebarTimer
  /\ document' = addSidebarItem(document)
  /\ renderer' = [renderer EXCEPT !.sidebarTimer = FALSE, !.verifyTimer = TRUE,
                                  !.added = @ + 1]
  /\ UNCHANGED tasks
  /\ StoreUnchanged

\* lines 777-785: the verification only logs
VerifyTimeout ==
  /\ renderer.verifyTimer
  /\ renderer' = [renderer EXCEPT !.verifyTimer = FALSE]
  /\ UNCHANGED <<document, tasks>>
  /\ StoreUnchanged

\* the host page renders one more of its elements
HostLoads ==
  /\ \E e \in HostElements \ document.host :
       document' = [document EXCEPT !.host = @ \cup {e}]
  /\ UNCHANGED <<renderer, tasks>>
  /\ StoreUnchanged

\* document.getElementById(id).remove() for the pages: the first in document
\* order is removed
RemoveFirst(seq) == IF seq = <<>> THEN seq ELSE Tail(seq)

\* lines 801-810
stop ==
  /\ renderer.started
  /\ ~renderer.stopped
  /\ document' = [document EXCEPT !.pages = RemoveFirst(@),
                                  !.nav = IF @ > 0 THEN @ - 1 ELSE 0]
  /\ renderer' = [renderer EXCEPT !.stopped = TRUE]
  /\ UNCHANGED tasks
  /\ StoreUnchanged

InitPoll ==
  /\ callers = {}
  /\ cap = 0
  /\ offered = {}
  /\ formats = {}
  /\ files = <<>>
  /\ dirReadable = TRUE
  /\ disk = <<>>
  /\ inflight = {}
  /\ now = 1
  /\ last = NoOp
  /\ NoPage

NextPoll ==
  \/ start
  \/ PollTick
  \/ SidebarTimeout
  \/ VerifyTimeout
  \/ HostLoads
  \/ stop

\* a timer that is set fires
SpecPoll ==
  /\ InitPoll
  /\ [][NextPoll]_vars
  /\ WF_vars(PollTick)
  /\ WF_vars(SidebarTimeout)

\* C16: the poll ticks at most maxAttempts times and only while the interval
\* is set; the first tick that finds the app ready clears the interval, and
\* addSidebarItem is then called, once and no more; a poll whose ticks never
\* find the app ready clears the interval at the last tick and addSidebarItem
\* is never called; the interval is cleared in the end.
C16_PollStops ==
  /\ [](renderer.attempts <= maxAttempts)
  /\ [][renderer'.attempts # renderer.attempts => renderer.interval]_vars
  /\ [][(renderer'.attempts # renderer.attempts /\ appReady)
          => (~renderer'.interval /\ renderer'.detected)]_vars
  /\ [](renderer.added <= 1)
  /\ [](~renderer.detected => (renderer.added = 0 /\ ~renderer.sidebarTimer))
  /\ []((renderer.attempts = maxAttempts /\ ~renderer.detected) => ~renderer.interval)
  /\ [](renderer.started => <>[](~renderer.interval))
  /\ [](renderer.detected => <>[](renderer.added = 1))

\* the app was found ready at the last tick and the items were added
C16_Witness ==
  /\ renderer.attempts = maxAttempts
  /\ renderer.detected
  /\ renderer.added = 1
  /\ document.nav = 1
  /\ document.navMini = 0

-----------------------------------------------------------------------------
(* The renderer: the pages *)

\* a page element with id 'local-playlists-page'.  buttons: how many times
\* click listeners were added to its buttons; cardClicks: to each of its cards
ListPage(playlists) ==
  [view |-> "list", name |-> <<>>, cards |-> {playlists[i].name : i \in 1..Len(playlists)},
   buttons |-> 0, cardClicks |-> 0]
DetailPage(playlistName) ==
  [view |-> "detail", name |-> playlistName, cards |-> {}, buttons |-> 0, cardClicks |-> 0]

\* what a step of the renderer works on: the document, the suspended
\* functions, the requests in flight and the number of functions started
World == [doc |-> document, tasks |-> tasks, inflight |-> inflight, spawned |-> renderer.spawned]

\* await context.ipc.invoke(...): the function fn is suspended until the
\* handler of the request has returned
Await(w, fn, playlistName, req) ==
  LET id == w.spawned + 1
  IN [w EXCEPT !.tasks = @ \cup {[id |-> id, fn |-> fn, name |-> playlistName,
                                  pc |-> "await", reply |-> Idle]},
               !.inflight = @ \cup {[req |-> req @@ [from |-> id], waited |-> FALSE]},
               !.spawned = id]

\* lines 361-383: up to the await
showPlaylistsPage(w) ==
  IF "ytmusic-app-layout" \notin w.doc.host THEN w
  ELSE Await([w EXCEPT !.doc.pages = RemoveFirst(@)],
             "showPlaylistsPage", <<>>, [op |-> "list"])

\* line 457
showPlaylistDetail(w, playlistName) ==
  Await(w, "showPlaylistDetail", playlistName, [op |-> "list"])

\* document.getElementById finds the first element of the id in the document
First(pages, view) ==
  LET at == {i \in DOMAIN pages : pages[i].view = view}
  IN IF at = {} THEN 0 ELSE CHOOSE i \in at : \A j \in at : i <= j

\* lines 424-449: listeners on the buttons of the first list page and on
\* every card in the document
ListListeners(pages) ==
  [i \in DOMAIN pages |->
     IF pages[i].view # "list" THEN pages[i]
     ELSE [pages[i] EXCEPT !.buttons = @ + (IF i = First(pages, "list") THEN 1 ELSE 0),
                           !.cardClicks = @ + 1]]

\* lines 534-546: listeners on the buttons of the first detail page
DetailListeners(pages) ==
  [i \in DOMAIN pages |->
     IF i = First(pages, "detail") THEN [pages[i] EXCEPT !.buttons = @ + 1] ELSE pages[i]]

\* lines 658-675: one more click listener on every guide entry of the host
setupNavigationListeners(doc) ==
  IF doc.host \cap {GuideLibrary, MiniGuideLibrary} = {} THEN doc
  ELSE [doc EXCEPT !.navListeners = @ + 1]

\* lines 385-452: showPlaylistsPage after the await
PlaylistsPageShown(w, playlists) ==
  [w EXCEPT !.doc = setupNavigationListeners(
                      [@ EXCEPT !.pages = ListListeners(Append(@, ListPage(playlists)))])]

\* lines 458-557: showPlaylistDetail after the await
PlaylistDetailShown(w, playlistName, playlists) ==
  IF \A i \in 1..Len(playlists) : playlists[i].name # playlistName THEN w
  ELSE IF "ytmusic-app-layout" \notin w.doc.host
  THEN [w EXCEPT !.doc.pages = RemoveFirst(@)]
  ELSE [w EXCEPT !.doc = setupNavigationListeners(
                   [@ EXCEPT !.pages = DetailListeners(
                                         Append(RemoveFirst(@), DetailPage(playlistName)))])]

\* the function t runs on with the value its await resolved with
Continue(w, t) ==
  CASE t.fn = "showPlaylistsPage" -> PlaylistsPageShown(w, t.reply)
    [] t.fn = "showPlaylistDetail" -> PlaylistDetailShown(w, t.name, t.reply)
    [] t.fn = "delete-playlist-btn" -> IF t.reply.success THEN showPlaylistsPage(w) ELSE w
    [] t.fn = "import-playlist-btn" -> IF t.reply.success THEN showPlaylistsPage(w) ELSE w
    [] t.fn = "create-from-queue-btn" -> showPlaylistsPage(w)

\* the listeners of one click run one after the other
RECURSIVE Each(_, _, _)
Each(k, Listener(_), w) == IF k = 0 THEN w ELSE Each(k - 1, Listener, Listener(w))

\* the step ends: the world it leaves
Commit(w) ==
  /\ w.spawned <= MaxTasks
  /\ Cardinality(w.inflight) <= cap
  /\ document' = w.doc
  /\ tasks' = w.tasks
  /\ inflight' = w.inflight
  /\ renderer' = [renderer EXCEPT !.spawned = w.spawned]
  /\ UNCHANGED <<callers, cap, offered, formats, files, dirReadable, disk, now, last>>

\* a suspended function whose await has resolved runs to its end
Resume ==
  \E t \in tasks :
    /\ t.pc = "ready"
    /\ Commit(Continue([World EXCEPT !.tasks = @ \ {t}], t))

\* lines 310-318: a click on either sidebar item
ClickNav ==
  /\ document.nav + document.navMini > 0
  /\ Commit(showPlaylistsPage(World))

\* lines 437-449: a click on a card, outside its play button
ClickCard ==
  \E i \in DOMAIN document.pages : \E playlistName \in document.pages[i].cards :
    /\ document.pages[i].cardClicks > 0
    /\ Commit(Each(document.pages[i].cardClicks,
                   LAMBDA w : showPlaylistDetail(w, playlistName), World))

\* line 534
ClickBack ==
  \E i \in DOMAIN document.pages :
    /\ document.pages[i].view = "detail"
    /\ document.pages[i].buttons > 0
    /\ Commit(Each(document.pages[i].buttons, showPlaylistsPage, World))

\* lines 538-546, the user confirms
ClickDelete ==
  \E i \in DOMAIN document.pages :
    /\ document.pages[i].view = "detail"
    /\ document.pages[i].buttons > 0
    /\ Commit(Each(document.pages[i].buttons,
                   LAMBDA w : Await(w, "delete-playlist-btn", <<>>,
                                    [op |-> "delete", name |-> document.pages[i].name]),
                   World))

\* lines 424-430
ClickImport ==
  \E i \in DOMAIN document.pages :
    /\ document.pages[i].view = "list"
    /\ document.pages[i].buttons > 0
    /\ Commit(Each(document.pages[i].buttons,
                   LAMBDA w : Await(w, "import-playlist-btn", <<>>, [op |-> "import"]),
                   World))

\* lines 432-435 and 569-637: the prompt is cancelled or no song is found,
\* and createFromQueue returns at once; or the playlist is saved
ClickCreate ==
  \E i \in DOMAIN document.pages :
    /\ document.pages[i].view = "list"
    /\ document.pages[i].buttons > 0
    /\ \/ Commit(Each(document.pages[i].buttons, showPlaylistsPage, World))
       \/ \E playlistName \in names \ {<<>>, Undefined}, songs \in QueueSongLists :
            Commit(Each(document.pages[i].buttons,
                        LAMBDA w : Await(w, "create-from-queue-btn", <<>>,
                                         [op |-> "save",
                                          playlist |-> Playlist(playlistName, songs,
                                                                toISOString(now),
                                                                toISOString(now))]),
                        World))

\* lines 662-673: a click on a guide entry of the host runs every listener
\* added to it, each removing the first page
ClickGuideEntry ==
  /\ document.navListeners > 0
  /\ document.pages # <<>>
  /\ Commit(Each(document.navListeners,
                 LAMBDA w : [w EXCEPT !.doc.pages = RemoveFirst(@)], World))

\* the page is loaded and one playlist is stored when the plugin is enabled
StoredA == Playlist(<<"A">>, <<SongA>>, toISOString(0), toISOString(0))

InitUI ==
  /\ callers = {Playlist(<<"B">>, <<SongA>>, <<>>, <<>>)}
  /\ cap = MaxTasks
  /\ offered = {}
  /\ formats = {}
  /\ files = (fileName(<<"A">>) :> JSONstringify(StoredA))
  /\ dirReadable = TRUE
  /\ disk = <<>>
  /\ inflight = {}
  /\ now = 1
  /\ last = NoOp
  /\ document = [NoDocument EXCEPT !.host = HostElements]
  /\ tasks = {}
  /\ renderer = NoRenderer

NextUI ==
  \/ start
  \/ PollTick
  \/ SidebarTimeout
  \/ VerifyTimeout
  \/ ClickNav
  \/ ClickCard
  \/ ClickBack
  \/ ClickDelete
  \/ ClickImport
  \/ ClickCreate
  \/ ClickGuideEntry
  \/ Resume
  \/ HandleList
  \/ HandleSave
  \/ HandleDelete
  \/ HandleImport
  \/ stop

SpecUI == InitUI /\ [][NextUI]_vars

\* C14 as stated: the document holds at most one element with the id
\* 'local-playlists-page'.
C14_AtMostOnePage == Len(document.pages) <= 1

\* no timer is set, no function is suspended and no request is in flight
Quiet ==
  /\ ~renderer.interval
  /\ ~renderer.sidebarTimer
  /\ ~renderer.verifyTimer
  /\ tasks = {}
  /\ inflight = {}

\* C17 as stated: once stop has run and nothing is pending, the document
\* holds no page and neither sidebar item.
C17_StopRemovesAll ==
  (renderer.stopped /\ Quiet) =>
    /\ document.pages = <<>>
    /\ document.nav = 0
    /\ document.navMini = 0

====
